---- MODULE Spec2Model ----
(***************************************************************************)
(* A model of hickle/helpers.py: the H5NodeFilterProxy attribute overlay,  *)
(* the PyContainer base class, the no_compression dict filter and the      *)
(* version dependent string attribute read helpers.                        *)
(***************************************************************************)
EXTENDS Integers, Sequences, FiniteSets, TLC

VARIABLES
    \* ---- wrapped h5 nodes and the H5NodeFilterProxy ----
    nodeAttrs,   \* node -> its persisted attribute mapping (h5_node.attrs)
    nodePy,      \* node -> the Python level attributes of the node object
    nodeItems,   \* node -> its children as <<name, child>> in storage order
    pAlive,      \* a proxy object exists
    pNode,       \* the proxy's slot _h5_node
    pAttrs,      \* the proxy's slot attrs
    snapAttrs,   \* nodeAttrs when the proxy was created
    snapPy,      \* nodePy when the proxy was created
    snapItems,   \* nodeItems when the proxy was created
    pLast        \* the last operation on the proxy and what it returned

proxyVars == <<nodeAttrs, nodePy, nodeItems, pAlive, pNode, pAttrs,
               snapAttrs, snapPy, snapItems, pLast>>

VARIABLES
    \* ---- PyContainer ----
    heap,        \* the list objects: reference (index) -> list content
    conts,       \* the PyContainer instances, in order of construction
    cLast,       \* the last operation on a container and what it returned
    gen          \* the generator a call of filter returned

contVars == <<heap, conts, cLast, gen>>

VARIABLES
    \* ---- container classes known to the loader ----
    registry,    \* the container classes registered
    loaded,      \* the containers the load path instantiated
    rLast        \* the last registry operation and what it returned

regVars == <<registry, loaded, rLast>>

VARIABLES
    \* ---- no_compression ----
    ncIn,        \* the argument mapping: a dict or an iterable of pairs
    ncIn0,       \* the argument as it was before the call
    ncOut,       \* no_compression(mapping)
    ncOut2,      \* no_compression(no_compression(mapping))
    ncStage      \* "start", "called" or "again"

ncVars == <<ncIn, ncIn0, ncOut, ncOut2, ncStage>>

VARIABLES
    \* ---- the string attribute read helpers ----
    h5major,     \* h5py's major version once the module is imported, else 0
    bound,       \* helper name -> the function the module binds it to
    attrStore,   \* the attributes of a node: attribute name -> stored value
    aLast        \* the last helper call and what it returned

attrVars == <<h5major, bound, attrStore, aLast>>

vars == <<proxyVars, contVars, regVars, ncVars, attrVars>>

exceptProxy == <<contVars, regVars, ncVars, attrVars>>
exceptCont == <<nodeAttrs, nodePy, pAlive, pNode, pAttrs, snapAttrs, snapPy,
                pLast, regVars, ncVars, attrVars>>
exceptReg == <<proxyVars, contVars, ncVars, attrVars>>
exceptNc == <<proxyVars, contVars, regVars, attrVars>>
exceptAttr == <<proxyVars, contVars, regVars, ncVars>>

----------------------------------------------------------------------------
\* Values shared by the components

Absent == "absent"
KeyError == "KeyError"
AttributeError == "AttributeError"
TypeError == "TypeError"
IndexError == "IndexError"
NotImplementedError == "NotImplementedError"

----------------------------------------------------------------------------
\* H5NodeFilterProxy

Nodes == {"n1", "n2"}
AttrKeys == {"k1", "k2"}
Vals == {"v1", "v2"}
\* names looked up or assigned on the proxy object
PyNames == {"shape"}
AllNames == PyNames \cup {"attrs", "_h5_node"}
ChildNames == {"a", "b"}

\* a dict over AttrKeys; a key that is not in the dict maps to Absent
Dicts == [AttrKeys -> Vals \cup {Absent}]
EmptyDict == [k \in AttrKeys |-> Absent]

\* the dict objects a caller may assign to proxy.attrs
DictOf(token) ==
    IF token = "d1" THEN [k \in AttrKeys |-> IF k = "k1" THEN "v2" ELSE Absent]
    ELSE [k \in AttrKeys |-> Absent]
DictTokens == {"d0", "d1"}

\* collections.ChainMap({}, h5_node.attrs): maps[0] is the overlay, maps[1]
\* is the node's attrs. __getitem__ searches the maps in order.
ChainMap_getitem_basefirst(overlay, base, k) ==
    IF base[k] # Absent THEN base[k]
    ELSE IF overlay[k] # Absent THEN overlay[k]
    ELSE KeyError

ChainMap_getitem(overlay, base, k) ==
    IF overlay[k] # Absent THEN overlay[k]
    ELSE IF base[k] # Absent THEN base[k]
    ELSE KeyError

\* ChainMap.__setitem__: self.maps[0][key] = value
ChainMap_setitem_base(overlay, base, k, v) ==
    [overlay |-> overlay, base |-> [base EXCEPT ![k] = v]]

ChainMap_setitem(overlay, base, k, v) ==
    [overlay |-> [overlay EXCEPT ![k] = v], base |-> base]

\* ChainMap.__delitem__: del self.maps[0][key], KeyError when it is not there
ChainMap_delitem(overlay, base, k) ==
    IF overlay[k] # Absent
    THEN [overlay |-> [overlay EXCEPT ![k] = Absent], base |-> base, res |-> "ok"]
    ELSE [overlay |-> overlay, base |-> base, res |-> KeyError]

\* the names __getattribute__ and __setattr__ serve from the proxy itself
GetLocalNames == {"attrs", "_h5_node"}

SetLocalNames_attrs_only == {"attrs"}

SetLocalNames == {"_h5_node", "attrs"}

\* getattr(h5_node, name)
Node_getattr(n, name) ==
    IF name \in DOMAIN nodePy[n] /\ nodePy[n][name] # Absent
    THEN nodePy[n][name] ELSE AttributeError

\* h5_node.__getitem__(key) with the name of a child
RECURSIVE LookupItem(_, _)
LookupItem(items, key) ==
    IF items = <<>> THEN KeyError
    ELSE IF Head(items)[1] = key THEN Head(items)[2]
    ELSE LookupItem(Tail(items), key)

Node_getitem(n, key) == LookupItem(nodeItems[n], key)

\* h5_node.__getitem__(i) with an integer: a group is keyed by child names
Node_getitem_index(n, i) == TypeError

\* iter(h5_node): the names of the children in storage order
Node_iter(n) ==
    [ok |-> TRUE, err |-> "",
     items |-> [i \in 1..Len(nodeItems[n]) |-> nodeItems[n][i][1]]]

\* the methods the class H5NodeFilterProxy defines; special methods are looked
\* up on the class and never reach __getattribute__
ProxyMethods == {"__init__", "__getattribute__", "__setattr__", "__getitem__"}

\* H5NodeFilterProxy.__getitem__
Proxy_getitem(key) == Node_getitem(pNode, key)

Proxy_getitem_index(i) == Node_getitem_index(pNode, i)

\* iter(proxy): without __iter__ Python falls back on the sequence protocol,
\* __getitem__(0), __getitem__(1), ... until IndexError
RECURSIVE SequenceIter(_, _)
SequenceIter(i, acc) ==
    LET r == Proxy_getitem_index(i) IN
    IF r = IndexError THEN [ok |-> TRUE, err |-> "", items |-> acc]
    ELSE IF r \in {TypeError, KeyError} THEN [ok |-> FALSE, err |-> r, items |-> <<>>]
    ELSE SequenceIter(i + 1, Append(acc, r))

Proxy_iter ==
    IF "__iter__" \in ProxyMethods THEN Node_iter(pNode) ELSE SequenceIter(0, <<>>)

\* the layer proxy.attrs falls through to
BaseLayer == IF pAttrs.chain THEN nodeAttrs[pAttrs.base] ELSE EmptyDict

NoOp == [op |-> "none", key |-> "", val |-> "", res |-> "",
         iter |-> [ok |-> TRUE, err |-> "", items |-> <<>>]]

Op(op, key, val, res) == [NoOp EXCEPT !.op = op, !.key = key, !.val = val, !.res = res]

\* a component that takes no part in a specification stays as it is here
NoGen == [active |-> FALSE, parent |-> "n1", pos |-> 0, done |-> FALSE, out |-> <<>>]
NoContOp == [op |-> "none", c |-> 0, name |-> "", item |-> "", res |-> "",
             before |-> ""]
NoRegOp == [op |-> "none", cls |-> "", res |-> ""]

IdleCont ==
    /\ heap = <<>>
    /\ conts = <<>>
    /\ cLast = NoContOp
    /\ gen = NoGen

IdleReg ==
    /\ registry = {}
    /\ loaded = <<>>
    /\ rLast = NoRegOp

NoText == [kind |-> "none", text |-> <<>>, list |-> <<>>, err |-> ""]
NoCall == [op |-> "none", helper |-> "", attr |-> "", res |-> NoText]

IdleNc ==
    /\ ncIn = [kind |-> "dict", dict |-> <<>>, pairs |-> <<>>]
    /\ ncIn0 = ncIn
    /\ ncOut = <<>>
    /\ ncOut2 = <<>>
    /\ ncStage = "start"

IdleAttr ==
    /\ h5major = 0
    /\ bound = <<>>
    /\ attrStore = [s |-> <<>>, l |-> <<>>]
    /\ aLast = NoCall

\* the node states a run starts from
Dict2(a, b) == [k \in AttrKeys |-> IF k = "k1" THEN a ELSE b]
InitAttrs ==
    {f \in [Nodes -> {EmptyDict, Dict2("v1", Absent), Dict2("v1", "v2"),
                      Dict2(Absent, "v1")}] : f["n2"] = Dict2("v1", "v2")}
InitItems ==
    {f \in [Nodes -> {<<>>, << <<"a", "v1">>, <<"b", "v2">> >>,
                      << <<"b", "v2">>, <<"a", "v1">> >>}] :
        f["n2"] = << <<"b", "v2">>, <<"a", "v1">> >>}

InitProxy ==
    /\ nodeAttrs \in InitAttrs
    /\ nodePy = [n \in Nodes |-> [name \in AllNames |-> Absent]]
    /\ nodeItems \in InitItems
    /\ pAlive = FALSE
    /\ pNode = "n1"
    /\ pAttrs = [chain |-> TRUE, overlay |-> EmptyDict, base |-> "n1"]
    /\ snapAttrs = nodeAttrs
    /\ snapPy = nodePy
    /\ snapItems = nodeItems
    /\ pLast = NoOp
    /\ IdleCont
    /\ IdleReg
    /\ IdleNc
    /\ IdleAttr

\* H5NodeFilterProxy.__init__(h5_node)
ProxyInit ==
    /\ ~pAlive
    /\ UNCHANGED exceptProxy
    /\ pLast.op = "none"
    /\ \E n \in Nodes :
        /\ pNode' = n
        /\ pAttrs' = [chain |-> TRUE, overlay |-> EmptyDict, base |-> n]
        /\ pLast' = Op("init", n, "", "")
    /\ pAlive' = TRUE
    /\ snapAttrs' = nodeAttrs
    /\ snapPy' = nodePy
    /\ snapItems' = nodeItems
    /\ UNCHANGED <<nodeAttrs, nodePy, nodeItems>>

\* proxy.attrs[k]
AttrsRead ==
    /\ pAlive
    /\ UNCHANGED exceptProxy
    /\ \E k \in AttrKeys :
        pLast' = Op("attrs_read", k, "", ChainMap_getitem(pAttrs.overlay, BaseLayer, k))
    /\ UNCHANGED <<nodeAttrs, nodePy, nodeItems, pAlive, pNode, pAttrs,
                   snapAttrs, snapPy, snapItems>>

\* proxy.attrs[k] = v
AttrsWrite ==
    /\ pAlive
    /\ UNCHANGED exceptProxy
    /\ \E k \in AttrKeys, v \in Vals :
        LET r == ChainMap_setitem(pAttrs.overlay, BaseLayer, k, v) IN
        /\ pAttrs' = [pAttrs EXCEPT !.overlay = r.overlay]
        /\ nodeAttrs' = IF pAttrs.chain
                        THEN [nodeAttrs EXCEPT ![pAttrs.base] = r.base]
                        ELSE nodeAttrs
        /\ pLast' = Op("attrs_write", k, v, "ok")
    /\ UNCHANGED <<nodePy, nodeItems, pAlive, pNode, snapAttrs, snapPy, snapItems>>

\* del proxy.attrs[k]
AttrsDelete ==
    /\ pAlive
    /\ UNCHANGED exceptProxy
    /\ \E k \in AttrKeys :
        LET r == ChainMap_delitem(pAttrs.overlay, BaseLayer, k) IN
        /\ pAttrs' = [pAttrs EXCEPT !.overlay = r.overlay]
        /\ nodeAttrs' = IF pAttrs.chain
                        THEN [nodeAttrs EXCEPT ![pAttrs.base] = r.base]
                        ELSE nodeAttrs
        /\ pLast' = Op("attrs_delete", k, "", r.res)
    /\ UNCHANGED <<nodePy, nodeItems, pAlive, pNode, snapAttrs, snapPy, snapItems>>

\* proxy.name: H5NodeFilterProxy.__getattribute__
GetAttr ==
    /\ pAlive
    /\ UNCHANGED exceptProxy
    /\ \E name \in AllNames :
        pLast' = Op("getattr", name, "",
                    IF name \in GetLocalNames
                    THEN (IF name = "_h5_node" THEN pNode ELSE "attrs-object")
                    ELSE Node_getattr(pNode, name))
    /\ UNCHANGED <<nodeAttrs, nodePy, nodeItems, pAlive, pNode, pAttrs,
                   snapAttrs, snapPy, snapItems>>

\* proxy.name = value: H5NodeFilterProxy.__setattr__
SetAttr ==
    /\ pAlive
    /\ UNCHANGED exceptProxy
    /\ \E name \in AllNames :
        \E value \in (IF name = "_h5_node" THEN Nodes
                      ELSE IF name = "attrs" THEN DictTokens ELSE Vals) :
            /\ pLast' = Op("setattr", name, value, "ok")
            /\ IF name \in SetLocalNames
               THEN /\ pNode' = IF name = "_h5_node" THEN value ELSE pNode
                    /\ pAttrs' = IF name = "attrs"
                                 THEN [chain |-> FALSE, overlay |-> DictOf(value),
                                       base |-> pAttrs.base]
                                 ELSE pAttrs
                    /\ nodePy' = nodePy
               ELSE /\ nodePy' = [nodePy EXCEPT ![pNode][name] = value]
                    /\ UNCHANGED <<pNode, pAttrs>>
    /\ UNCHANGED <<nodeAttrs, nodeItems, pAlive, snapAttrs, snapPy, snapItems>>

\* proxy[key]: H5NodeFilterProxy.__getitem__
GetItem ==
    /\ pAlive
    /\ UNCHANGED exceptProxy
    /\ \E key \in ChildNames : pLast' = Op("getitem", key, "", Proxy_getitem(key))
    /\ UNCHANGED <<nodeAttrs, nodePy, nodeItems, pAlive, pNode, pAttrs,
                   snapAttrs, snapPy, snapItems>>

\* for name in proxy
Iterate ==
    /\ pAlive
    /\ UNCHANGED exceptProxy
    /\ pLast' = [Op("iter", "", "", "") EXCEPT !.iter = Proxy_iter]
    /\ UNCHANGED <<nodeAttrs, nodePy, nodeItems, pAlive, pNode, pAttrs,
                   snapAttrs, snapPy, snapItems>>

\* the last reference to the proxy is dropped
Discard ==
    /\ pAlive
    /\ UNCHANGED exceptProxy
    /\ pAlive' = FALSE
    /\ pLast' = Op("discard", "", "", "")
    /\ UNCHANGED <<nodeAttrs, nodePy, nodeItems, pNode, pAttrs,
                   snapAttrs, snapPy, snapItems>>

NextProxy ==
    \/ ProxyInit
    \/ AttrsRead
    \/ AttrsWrite
    \/ AttrsDelete
    \/ GetAttr
    \/ SetAttr
    \/ GetItem
    \/ Iterate
    \/ Discard

SpecProxy == InitProxy /\ [][NextProxy]_vars

----------------------------------------------------------------------------
\* Properties of H5NodeFilterProxy, checked under SpecProxy

\* C1: whatever is read, written or deleted through proxy.attrs, every node's
\* own attribute mapping holds exactly the keys and values it held when the
\* proxy was created, while the proxy lives and after it is discarded, and a
\* write through proxy.attrs is found in the proxy's local layer.
C1_OverlayIsolation ==
    /\ nodeAttrs = snapAttrs
    /\ pLast.op = "attrs_write" => pAttrs.overlay[pLast.key] = pLast.val

\* C1 witness: a discarded proxy whose overlay shadowed a persisted key with
\* another value.
C1_Witness ==
    /\ ~pAlive
    /\ pLast.op = "discard"
    /\ pAttrs.chain
    /\ \E k \in AttrKeys :
        /\ pAttrs.overlay[k] # Absent
        /\ nodeAttrs[pAttrs.base][k] # Absent
        /\ pAttrs.overlay[k] # nodeAttrs[pAttrs.base][k]

\* C2 as stated: after any operation of the proxy, attribute assignments
\* proxy.name = value included, every node is in the state it had when the
\* proxy was created.
C2_NodeUnchangedByAnyOperation ==
    /\ nodeAttrs = snapAttrs
    /\ nodePy = snapPy
    /\ nodeItems = snapItems

\* C2 amended: an assignment proxy.name = value with a name other than attrs
\* and _h5_node is forwarded to the wrapped node and sets that attribute of
\* it, changing nothing else; every other operation of the proxy (lookups,
\* item reads, iteration, the attrs mapping, assignments to attrs and
\* _h5_node, discarding) leaves every node unchanged.
C2_OnlyForwardedAssignmentChangesNode ==
    [][IF pLast'.op = "setattr" /\ pLast'.key \notin {"attrs", "_h5_node"}
       THEN /\ nodePy' = [nodePy EXCEPT ![pNode][pLast'.key] = pLast'.val]
            /\ nodeAttrs' = nodeAttrs
            /\ nodeItems' = nodeItems
       ELSE /\ nodePy' = nodePy
            /\ nodeAttrs' = nodeAttrs
            /\ nodeItems' = nodeItems]_vars

\* C2 witness: proxy.shape = value has just changed the wrapped node.
C2_Witness ==
    /\ pAlive
    /\ pLast.op = "setattr"
    /\ pLast.key = "shape"
    /\ nodePy[pNode]["shape"] = pLast.val
    /\ nodePy # snapPy

\* C3: with the slots as __init__ set them, proxy.attrs[k] returns the overlay
\* value when k is in the overlay, the node's persisted value when k is only
\* persisted, and KeyError when k is in neither layer; a new proxy has an
\* empty overlay over the attrs of the node it wraps.
C3_ReadsOverlayThenPersisted ==
    /\ pLast.op = "init" =>
        /\ pAttrs.chain
        /\ pAttrs.base = pNode
        /\ pAttrs.overlay = EmptyDict
    /\ (pLast.op = "attrs_read" /\ pAttrs.chain /\ pAttrs.base = pNode) =>
        LET k == pLast.key
            over == pAttrs.overlay[k]
            pers == nodeAttrs[pNode][k]
        IN  /\ over # Absent => pLast.res = over
            /\ (over = Absent /\ pers # Absent) => pLast.res = pers
            /\ (over = Absent /\ pers = Absent) => pLast.res = KeyError

\* C3 witness: a read of a key whose overlay value shadows a different
\* persisted value.
C3_Witness ==
    /\ pLast.op = "attrs_read"
    /\ pAttrs.chain
    /\ pAttrs.base = pNode
    /\ pAttrs.overlay[pLast.key] # Absent
    /\ nodeAttrs[pNode][pLast.key] # Absent
    /\ pAttrs.overlay[pLast.key] # nodeAttrs[pNode][pLast.key]
    /\ pLast.res = pAttrs.overlay[pLast.key]

\* C4 as stated: attribute lookup by a name other than attrs and _h5_node,
\* item read and iteration give through the proxy what the wrapped node
\* gives for the same operation.
C4_EveryOperationForwarded ==
    /\ (pLast.op = "getattr" /\ pLast.key \notin {"attrs", "_h5_node"}) =>
        pLast.res = Node_getattr(pNode, pLast.key)
    /\ pLast.op = "getitem" => pLast.res = Node_getitem(pNode, pLast.key)
    /\ pLast.op = "iter" => pLast.iter = Node_iter(pNode)

\* The part of C4 the code provides: attribute lookup and item read are
\* forwarded to the wrapped node.
LookupAndItemReadForwarded ==
    /\ (pLast.op = "getattr" /\ pLast.key \notin {"attrs", "_h5_node"}) =>
        pLast.res = Node_getattr(pNode, pLast.key)
    /\ pLast.op = "getitem" => pLast.res = Node_getitem(pNode, pLast.key)

----------------------------------------------------------------------------
\* PyContainer

MaxContainers == 2
MaxAppends == 3
Items == {"x", "y"}
None == 0

RECURSIVE TotalLen(_)
TotalLen(lists) ==
    IF lists = <<>> THEN 0 ELSE Len(Head(lists)) + TotalLen(Tail(lists))

\* PyContainer.__init__: self._content = _content if _content is not None
\* else [] -- the reference of the list the new container collects into
PyContainer_init_content_shared(arg, heapLen) ==
    IF arg # None THEN arg ELSE 1

PyContainer_init_content(arg, heapLen) ==
    IF arg # None THEN arg ELSE heapLen + 1

\* PyContainer.append: self._content.append(item)
PyContainer_append(content, name, item, h5_attrs) == Append(content, item)

\* PyContainer.convert: raise NotImplementedError
PyContainer_convert_protocol(status) ==
    IF status = "finalized" THEN "ProtocolError" ELSE NotImplementedError

PyContainer_convert(status) == NotImplementedError

\* PyContainer.filter: h_parent.items()
RECURSIVE Reverse(_)
Reverse(seq) == IF seq = <<>> THEN <<>> ELSE Append(Reverse(Tail(seq)), Head(seq))

PyContainer_filter_items_reversed(n) == Reverse(nodeItems[n])

PyContainer_filter_items(n) == nodeItems[n]

\* the nodes of a run that uses nodes as parents only
IdleProxy ==
    /\ nodeAttrs = [n \in Nodes |-> EmptyDict]
    /\ nodePy = [n \in Nodes |-> [name \in AllNames |-> Absent]]
    /\ pAlive = FALSE
    /\ pNode = "n1"
    /\ pAttrs = [chain |-> TRUE, overlay |-> EmptyDict, base |-> "n1"]
    /\ snapAttrs = nodeAttrs
    /\ snapPy = nodePy
    /\ pLast = NoOp

InitContainer ==
    /\ IdleProxy
    /\ nodeItems \in InitItems
    /\ snapItems = nodeItems
    /\ IdleCont
    /\ IdleReg
    /\ IdleNc
    /\ IdleAttr

\* PyContainer(h5_attrs, base_type, object_type, _content)
ContNew ==
    /\ UNCHANGED exceptCont
    /\ Len(conts) < MaxContainers
    /\ \E arg \in {None} \cup (1..Len(heap)) :
        LET ref == PyContainer_init_content(arg, Len(heap)) IN
        /\ heap' = IF ref > Len(heap) THEN Append(heap, <<>>) ELSE heap
        /\ conts' = Append(conts, [content |-> ref, explicit |-> arg # None,
                                   status |-> "collecting", calls |-> <<>>])
        /\ cLast' = [NoContOp EXCEPT !.op = "new", !.c = Len(conts) + 1, !.res = "ok"]
    /\ UNCHANGED <<gen, nodeItems, snapItems>>

\* container.append(name, item, h5_attrs)
ContAppend ==
    /\ UNCHANGED exceptCont
    /\ TotalLen(heap) < MaxAppends
    /\ \E c \in 1..Len(conts), name \in ChildNames, item \in Items,
          h5_attrs \in {EmptyDict, Dict2("v1", Absent)} :
        /\ heap' = [heap EXCEPT ![conts[c].content] =
                        PyContainer_append(@, name, item, h5_attrs)]
        /\ conts' = [conts EXCEPT ![c].calls = Append(@, item)]
        /\ cLast' = [op |-> "append", c |-> c, name |-> name, item |-> item,
                     res |-> "ok", before |-> conts[c].status]
    /\ UNCHANGED <<gen, nodeItems, snapItems>>

\* container.convert()
ContConvert ==
    /\ UNCHANGED exceptCont
    /\ \E c \in 1..Len(conts) :
        /\ conts' = [conts EXCEPT ![c].status = "finalized"]
        /\ cLast' = [op |-> "convert", c |-> c, name |-> "", item |-> "",
                     res |-> PyContainer_convert(conts[c].status),
                     before |-> conts[c].status]
    /\ UNCHANGED <<heap, gen, nodeItems, snapItems>>

\* container.filter(h_parent): the generator runs nothing until it is asked
\* for its first item
FilterCall ==
    /\ UNCHANGED exceptCont
    /\ Len(conts) > 0
    /\ ~gen.active \/ gen.done
    /\ \E n \in Nodes :
        gen' = [active |-> TRUE, parent |-> n, pos |-> 0, done |-> FALSE, out |-> <<>>]
    /\ cLast' = [NoContOp EXCEPT !.op = "filter", !.c = 1]
    /\ UNCHANGED <<heap, conts, nodeItems, snapItems>>

\* next(generator): yield from h_parent.items()
FilterNext ==
    /\ UNCHANGED exceptCont
    /\ gen.active
    /\ ~gen.done
    /\ LET items == PyContainer_filter_items(gen.parent) IN
        IF gen.pos < Len(items)
        THEN gen' = [gen EXCEPT !.pos = @ + 1, !.out = Append(@, items[gen.pos + 1])]
        ELSE gen' = [gen EXCEPT !.done = TRUE]
    /\ cLast' = [NoContOp EXCEPT !.op = "next", !.c = 1]
    /\ UNCHANGED <<heap, conts, nodeItems, snapItems>>

NextContainer ==
    \/ ContNew
    \/ ContAppend
    \/ ContConvert

SpecContainer == InitContainer /\ [][NextContainer]_vars

\* the load loop of one container: filter the parent, append what was decoded
InitFilter ==
    /\ IdleProxy
    /\ nodeItems \in InitItems
    /\ snapItems = nodeItems
    /\ heap = << <<>> >>
    /\ conts = << [content |-> 1, explicit |-> FALSE, status |-> "collecting",
                  calls |-> <<>>] >>
    /\ cLast = NoContOp
    /\ gen = NoGen
    /\ IdleReg
    /\ IdleNc
    /\ IdleAttr

NextFilter ==
    \/ FilterCall
    \/ FilterNext
    \/ ContAppend
    \/ ContConvert

SpecFilter == InitFilter /\ [][NextFilter]_vars

----------------------------------------------------------------------------
\* Properties of PyContainer, checked under SpecContainer and SpecFilter

C7_AppendAccumulatesInOrder ==
    (\A c \in 1..Len(conts) : ~conts[c].explicit) =>
        /\ \A c \in 1..Len(conts) : heap[conts[c].content] = conts[c].calls
        /\ \A c, d \in 1..Len(conts) : c # d => conts[c].content # conts[d].content

\* C7 witness: two containers constructed by default, two items appended to
\* the first and another item to the second.
C7_Witness ==
    /\ Len(conts) = 2
    /\ ~conts[1].explicit
    /\ ~conts[2].explicit
    /\ heap[conts[1].content] = <<"x", "y">>
    /\ heap[conts[2].content] = <<"y">>

\* C8: what the generator of filter has yielded is a prefix of the parent's
\* children, as (name, child) pairs in storage order, and all of them once it
\* is exhausted; the parent node and the container's _content are as they
\* would be without the call.
C8_FilterYieldsChildrenInOrder ==
    /\ gen.active =>
        /\ Len(gen.out) <= Len(nodeItems[gen.parent])
        /\ gen.out = SubSeq(nodeItems[gen.parent], 1, Len(gen.out))
        /\ gen.done => gen.out = nodeItems[gen.parent]
    /\ nodeItems = snapItems
    /\ \A c \in 1..Len(conts) : heap[conts[c].content] = conts[c].calls

\* C8 witness: a generator exhausted over a parent with two children whose
\* storage order is not the order of their names, the container holding an
\* item.
C8_Witness ==
    /\ gen.active
    /\ gen.done
    /\ gen.out = << <<"b", "v2">>, <<"a", "v1">> >>
    /\ heap[conts[1].content] # <<>>

----------------------------------------------------------------------------
\* Container classes and their registration

MaxLoaded == 2
ContainerClasses ==
    {"PyContainer", "ListLikeContainer", "DictLikeContainer", "NoConvertContainer"}
\* the container classes that override convert
DefinesConvert == {"ListLikeContainer", "DictLikeContainer"}

\* cls().convert(): the class's own convert, else the one inherited from
\* PyContainer
Container_convert(cls, status) ==
    IF cls \in DefinesConvert THEN "object" ELSE PyContainer_convert(status)

\* the capability check of registration: the class must implement convert
Registry_accepts_any(cls) == TRUE

Registry_accepts(cls) == cls \in DefinesConvert

InitRegistry ==
    /\ IdleProxy
    /\ nodeItems = [n \in Nodes |-> <<>>]
    /\ snapItems = nodeItems
    /\ IdleCont
    /\ IdleReg
    /\ IdleNc
    /\ IdleAttr

\* register a container class with the loader
Register ==
    /\ UNCHANGED exceptReg
    /\ \E cls \in ContainerClasses :
        IF Registry_accepts(cls)
        THEN /\ registry' = registry \cup {cls}
             /\ rLast' = [op |-> "register", cls |-> cls, res |-> "ok"]
        ELSE /\ registry' = registry
             /\ rLast' = [op |-> "register", cls |-> cls, res |-> NotImplementedError]
    /\ UNCHANGED loaded

\* the load path instantiates the container class registered for a node
LoadInstantiate ==
    /\ UNCHANGED exceptReg
    /\ Len(loaded) < MaxLoaded
    /\ \E cls \in registry :
        /\ loaded' = Append(loaded, [cls |-> cls, status |-> "collecting", result |-> ""])
        /\ rLast' = [op |-> "instantiate", cls |-> cls, res |-> "ok"]
    /\ UNCHANGED registry

\* the load path calls convert once all children are appended
LoadConvert ==
    /\ UNCHANGED exceptReg
    /\ \E i \in 1..Len(loaded) :
        /\ loaded[i].status = "collecting"
        /\ LET r == Container_convert(loaded[i].cls, loaded[i].status) IN
            /\ loaded' = [loaded EXCEPT ![i].status = "finalized", ![i].result = r]
            /\ rLast' = [op |-> "convert", cls |-> loaded[i].cls, res |-> r]
    /\ UNCHANGED registry

NextRegistry ==
    \/ Register
    \/ LoadInstantiate
    \/ LoadConvert

SpecRegistry == InitRegistry /\ [][NextRegistry]_vars

----------------------------------------------------------------------------
\* no_compression

MaxPairs == 3
\* the keys no_compression removes
CompressionKeys_short ==
    {"compression", "shuffle", "compression_opts", "chunks", "fletcher32"}

CompressionKeys ==
    {"compression", "shuffle", "compression_opts", "chunks", "fletcher32",
     "scaleoffset"}

\* the keys of the arguments tried: those removed and two that are kept
NcKeys ==
    {"compression", "shuffle", "compression_opts", "chunks", "fletcher32",
     "scaleoffset", "dtype", "maxshape"}
NcPairs == NcKeys \X Vals

\* mapping.items() of a dict: its entries, one after the other
RECURSIVE DictItems(_)
DictItems(d) ==
    IF DOMAIN d = {} THEN <<>>
    ELSE LET k == CHOOSE x \in DOMAIN d : TRUE
         IN  <<<<k, d[k]>>>> \o DictItems([x \in DOMAIN d \ {k} |-> d[x]])

\* mapping.items() if isinstance(mapping, dict) else mapping
NC_source(mapping) ==
    IF mapping.kind = "dict" THEN DictItems(mapping.dict) ELSE mapping.pairs

\* the generator: the pairs whose key is not a compression key
NC_kept(pairs) == SelectSeq(pairs, LAMBDA pr : pr[1] \notin CompressionKeys)

\* dict(pairs): the pairs are stored one after the other, a later pair
\* replacing an earlier one with the same key
RECURSIVE DictFromPairs(_)
DictFromPairs(pairs) ==
    IF pairs = <<>> THEN <<>>
    ELSE LET n == Len(pairs)
             d == DictFromPairs(SubSeq(pairs, 1, n - 1))
             k == pairs[n][1]
         IN  [x \in DOMAIN d \cup {k} |-> IF x = k THEN pairs[n][2] ELSE d[x]]

\* no_compression(mapping)
no_compression(mapping) == DictFromPairs(NC_kept(NC_source(mapping)))

AsDictArg(d) == [kind |-> "dict", dict |-> d, pairs |-> <<>>]
AsPairsArg(ps) == [kind |-> "pairs", dict |-> <<>>, pairs |-> ps]

NcDictArgs == UNION {[S -> Vals] : S \in SUBSET NcKeys}
NcPairArgs == UNION {[1..n -> NcPairs] : n \in 0..MaxPairs}

InitNc ==
    /\ IdleProxy
    /\ nodeItems = [n \in Nodes |-> <<>>]
    /\ snapItems = nodeItems
    /\ IdleCont
    /\ IdleReg
    /\ IdleAttr
    /\ ncIn \in {AsDictArg(d) : d \in NcDictArgs} \cup {AsPairsArg(ps) : ps \in NcPairArgs}
    /\ ncIn0 = ncIn
    /\ ncOut = <<>>
    /\ ncOut2 = <<>>
    /\ ncStage = "start"

\* result = no_compression(mapping)
NcCall ==
    /\ UNCHANGED exceptNc
    /\ ncStage = "start"
    /\ ncOut' = no_compression(ncIn)
    /\ ncStage' = "called"
    /\ UNCHANGED <<ncIn, ncIn0, ncOut2>>

\* no_compression(result)
NcCallAgain ==
    /\ UNCHANGED exceptNc
    /\ ncStage = "called"
    /\ ncOut2' = no_compression(AsDictArg(ncOut))
    /\ ncStage' = "again"
    /\ UNCHANGED <<ncIn, ncIn0, ncOut>>

NextNc ==
    \/ NcCall
    \/ NcCallAgain

SpecNc == InitNc /\ [][NextNc]_vars

\* the keys of the argument and the value the argument gives a key: for
\* pairs, the value of the last pair with that key
ArgKeys(mapping) ==
    IF mapping.kind = "dict" THEN DOMAIN mapping.dict
    ELSE {mapping.pairs[i][1] : i \in 1..Len(mapping.pairs)}

ArgValue(mapping, k) ==
    IF mapping.kind = "dict" THEN mapping.dict[k]
    ELSE LET last == CHOOSE i \in 1..Len(mapping.pairs) :
                        /\ mapping.pairs[i][1] = k
                        /\ \A j \in (i + 1)..Len(mapping.pairs) : mapping.pairs[j][1] # k
         IN  mapping.pairs[last][2]

\* C9: the result of no_compression holds exactly the keys of the argument
\* that are none of the six compression keys, each with the value the
\* argument gives it; the argument is unchanged; applying no_compression to
\* the result gives an equal dict.
C9_NoCompressionFilters ==
    /\ ncIn = ncIn0
    /\ ncStage # "start" =>
        /\ DOMAIN ncOut = ArgKeys(ncIn) \ {"compression", "shuffle", "compression_opts",
                                            "chunks", "fletcher32", "scaleoffset"}
        /\ \A k \in DOMAIN ncOut : ncOut[k] = ArgValue(ncIn, k)
    /\ ncStage = "again" => ncOut2 = ncOut

\* C9 witness: no_compression applied twice to pairs that hold a compression
\* key, scaleoffset, and a key that is kept.
C9_Witness ==
    /\ ncStage = "again"
    /\ ncIn.kind = "pairs"
    /\ {"compression", "scaleoffset", "dtype"} \subseteq ArgKeys(ncIn)
    /\ DOMAIN ncOut = {"dtype"}

----------------------------------------------------------------------------
\* The string attribute read helpers

MaxBytes == 2
\* the bytes the stored strings are made of: "A" and the two bytes of U+00E9
Bytes == {65, 195, 169}
ByteStrings == UNION {[1..n -> Bytes] : n \in 0..MaxBytes}
Helpers ==
    {"load_str_attr", "load_str_attr_ascii", "load_str_list_attr",
     "load_str_list_attr_ascii"}
AttrNames == {"s", "l", "missing"}

Text(t) == [kind |-> "text", text |-> t, list |-> <<>>, err |-> ""]
TextList(l) == [kind |-> "list", text |-> <<>>, list |-> l, err |-> ""]
Raises(e) == [kind |-> "error", text |-> <<>>, list |-> <<>>, err |-> e]

IsAscii(bytes) == \A i \in 1..Len(bytes) : bytes[i] < 128

\* bytes.decode('ascii')
DecodeAscii(bytes) ==
    IF IsAscii(bytes) THEN Text(bytes) ELSE Raises("UnicodeDecodeError")

\* bytes.decode('utf8'): one byte below 128, or a lead byte 194..223 and a
\* continuation byte 128..191
RECURSIVE Utf8Points(_)
Utf8Points(bytes) ==
    IF bytes = <<>> THEN [ok |-> TRUE, text |-> <<>>]
    ELSE IF bytes[1] < 128
    THEN LET r == Utf8Points(Tail(bytes))
         IN  [ok |-> r.ok, text |-> <<bytes[1]>> \o r.text]
    ELSE IF /\ bytes[1] >= 194
            /\ bytes[1] <= 223
            /\ Len(bytes) >= 2
            /\ bytes[2] >= 128
            /\ bytes[2] <= 191
    THEN LET r == Utf8Points(Tail(Tail(bytes)))
         IN  [ok |-> r.ok,
              text |-> <<(bytes[1] - 192) * 64 + (bytes[2] - 128)>> \o r.text]
    ELSE [ok |-> FALSE, text |-> <<>>]

DecodeUtf8(bytes) ==
    LET r == Utf8Points(bytes)
    IN  IF r.ok THEN Text(r.text) ELSE Raises("UnicodeDecodeError")

\* [value.decode(codec) for value in attrs[name]]
RECURSIVE DecodeEach(_, _)
DecodeEach(values, codec) ==
    IF values = <<>> THEN TextList(<<>>)
    ELSE LET h == IF codec = "ascii" THEN DecodeAscii(Head(values))
                  ELSE DecodeUtf8(Head(values))
             r == DecodeEach(Tail(values), codec)
         IN  IF h.kind = "error" THEN h
             ELSE IF r.kind = "error" THEN r
             ELSE TextList(<<h.text>> \o r.list)

\* the functions of the branch for h5py before version 3
LoadStrList(attrs, name, codec) ==
    IF name = "missing" THEN Raises(KeyError)
    ELSE IF name = "l" THEN DecodeEach(attrs.l, codec)
    ELSE IF attrs.s = <<>> THEN TextList(<<>>)
    ELSE Raises(AttributeError)

LoadStr(attrs, name, codec) ==
    IF name = "missing" THEN Raises(KeyError)
    ELSE IF name = "l" THEN Raises(AttributeError)
    ELSE IF codec = "ascii" THEN DecodeAscii(attrs.s)
    ELSE DecodeUtf8(attrs.s)

\* h5.AttributeManager.get(attrs, name): the attribute as h5py 3 reads it,
\* a str or a list of str, and None for a name that is not there
AttributeManager_get(attrs, name) ==
    IF name = "missing" THEN [kind |-> "none", text |-> <<>>, list |-> <<>>, err |-> ""]
    ELSE IF name = "l" THEN DecodeEach(attrs.l, "utf8")
    ELSE DecodeUtf8(attrs.s)

\* the names the module binds when h5py's major version is 3 or more: the
\* two assignment statements, in order
BindGet(names, binding) ==
    [n \in DOMAIN binding \cup names |->
        IF n \in names THEN "AttributeManager.get" ELSE binding[n]]

ImportNew ==
    BindGet({"load_str_attr_ascii", "load_str_list_attr"},
            BindGet({"load_str_list_attr_ascii", "load_str_list_attr"}, <<>>))

\* the names the module defines otherwise
ImportOld == [n \in Helpers |-> n]

\* helper(attrs, name)
CallHelper(helper, attrs, name) ==
    IF helper \notin DOMAIN bound THEN Raises("NameError")
    ELSE IF bound[helper] = "AttributeManager.get" THEN AttributeManager_get(attrs, name)
    ELSE IF bound[helper] = "load_str_list_attr_ascii" THEN LoadStrList(attrs, name, "ascii")
    ELSE IF bound[helper] = "load_str_list_attr" THEN LoadStrList(attrs, name, "utf8")
    ELSE IF bound[helper] = "load_str_attr_ascii" THEN LoadStr(attrs, name, "ascii")
    ELSE LoadStr(attrs, name, "utf8")

InitAttr ==
    /\ IdleProxy
    /\ nodeItems = [n \in Nodes |-> <<>>]
    /\ snapItems = nodeItems
    /\ IdleCont
    /\ IdleReg
    /\ IdleNc
    /\ h5major = 0
    /\ bound = <<>>
    /\ \E b \in ByteStrings :
        attrStore \in {[s |-> b, l |-> l] : l \in {<<>>, <<b>>, <<b, <<65>>>>, <<<<65>>, b>>}}
    /\ aLast = NoCall

\* import hickle.helpers
Import ==
    /\ UNCHANGED exceptAttr
    /\ h5major = 0
    /\ \/ /\ h5major' = 3
          /\ bound' = ImportNew
       \/ /\ h5major' = 2
          /\ bound' = ImportOld
    /\ UNCHANGED <<attrStore, aLast>>

\* helper(node.attrs, name)
Call ==
    /\ UNCHANGED exceptAttr
    /\ h5major # 0
    /\ \E helper \in Helpers, name \in AttrNames :
        aLast' = [op |-> "call", helper |-> helper, attr |-> name,
                  res |-> CallHelper(helper, attrStore, name)]
    /\ UNCHANGED <<h5major, bound, attrStore>>

NextAttr ==
    \/ Import
    \/ Call

SpecAttr == InitAttr /\ [][NextAttr]_vars

\* C10: once the module is imported, with either h5py version, all four read
\* helpers are defined, a scalar helper returns the text of the scalar
\* attribute and a list helper the list of the texts of the list attribute
\* (of ASCII strings, which every helper can decode).
C10_AllFourHelpersDefined ==
    h5major # 0 =>
        /\ Helpers \subseteq DOMAIN bound
        /\ (/\ aLast.op = "call"
            /\ aLast.helper \in {"load_str_attr", "load_str_attr_ascii"}
            /\ aLast.attr = "s"
            /\ IsAscii(attrStore.s)) => aLast.res = Text(attrStore.s)
        /\ (/\ aLast.op = "call"
            /\ aLast.helper \in {"load_str_list_attr", "load_str_list_attr_ascii"}
            /\ aLast.attr = "l"
            /\ \A i \in 1..Len(attrStore.l) : IsAscii(attrStore.l[i])) =>
                aLast.res = TextList(attrStore.l)

\* What holds of the branch for h5py before version 3: the four helpers are
\* defined and decode ASCII strings as C10 says.
HelpersDefinedBeforeVersion3 ==
    h5major = 2 => C10_AllFourHelpersDefined

====
